---- MODULE Spec2Model ----
(***************************************************************************)
(* Model of the dot-path accessors (hasdot, getdot, setdot), the           *)
(* structural type matcher (isinstance_check) and merge_dict of            *)
(* ddeutil.core.__base, of the date functions last_dom, last_doq and       *)
(* calc_data_date_with_freq of ddeutil.core.dtutils, and of                *)
(* writer_changelog of dup_utils.core.scripts.version.                     *)
(*                                                                         *)
(* A path is a Python str, modelled as a sequence of one-character         *)
(* strings.  A mapping is a function from keys (strs) to values; a value   *)
(* is a leaf or a nested mapping.  Each function family has its own        *)
(* specification over its own variables; the others stay idle.             *)
(***************************************************************************)
EXTENDS Integers, Sequences, FiniteSets, TLC

\* ------------------------------------------------------------------ bounds
MaxPathLen == 4
MaxDepth == 2
MaxUnion == 2
MaxArity == 2
MaxItems == 1

\* ------------------------------------------------------------ Python values
Chars == {"a", ".", "?"}

Leaf(x) == [kind |-> "leaf", v |-> x, d |-> <<>>]
Dict(m) == [kind |-> "dict", v |-> "", d |-> m]
None == Leaf("None")
IsDict(val) == val.kind = "dict"

KeyA == <<"a">>
KeyEmpty == <<>>

\* ----------------------------------------------------------- str helpers
\* str.endswith(ch) for a one-character suffix.
endswith(s, ch) == Len(s) > 0 /\ s[Len(s)] = ch

\* str.rstrip(ch): drops every trailing occurrence of ch.
RECURSIVE rstrip(_, _)
rstrip(s, ch) ==
    IF endswith(s, ch) THEN rstrip(SubSeq(s, 1, Len(s) - 1), ch) ELSE s

\* Index of the first occurrence of ch in s, 0 when there is none.
FirstIndex(s, ch) ==
    IF \E i \in 1..Len(s) : s[i] = ch
    THEN CHOOSE i \in 1..Len(s) : s[i] = ch /\ \A j \in 1..(i - 1) : s[j] # ch
    ELSE 0

\* splitter.must_split(value, ".", maxsplit=1): the first segment and the
\* remainder; the remainder is empty when there is no further delimiter.
must_split(value) ==
    LET i == FirstIndex(value, ".")
    IN  IF i = 0 THEN <<value, <<>>>>
        ELSE <<SubSeq(value, 1, i - 1), SubSeq(value, i + 1, Len(value))>>

\* ------------------------------------------------------------- outcomes
Return(val) == [tag |-> "return", val |-> val, exc |-> "", name |-> <<>>]
Raise(exc, name, where) == [tag |-> "raise", val |-> where, exc |-> exc, name |-> name]
NoResult == [tag |-> "none", val |-> None, exc |-> "", name |-> <<>>]

\* -------------------------------------------------------------- hasdot
RECURSIVE hasdot(_, _)

\* hasdot that does not look into what the key holds before answering.
hasdot_any_value(search, content) ==
    LET sp == must_split(search)
    IN  sp[1] \in DOMAIN content

\* hasdot that never descends into a nested mapping.
hasdot_no_descent(search, content) ==
    LET sp == must_split(search)
    IN  sp[1] \in DOMAIN content /\ sp[2] = <<>>

hasdot(search, content) ==
    LET sp == must_split(search)
        _search == sp[1]
        _else == sp[2]
    IN  IF _search \in DOMAIN content
        THEN IF _else = <<>> THEN TRUE
             ELSE IF IsDict(content[_search])
                  THEN hasdot(_else, content[_search].d)
                  ELSE FALSE
        ELSE FALSE

\* -------------------------------------------------------------- getdot
\* The mismatch handled like an absent key under ignore only: never raises.
getdot_mismatch_silent(_else, sub_content, ignore) == Return(None)

\* The found key holds a non-mapping while segments remain.
getdot_mismatch(_else, sub_content, ignore) ==
    IF ignore THEN Return(None)
    ELSE Raise("ValueError", _else, sub_content)

\* The absent-key policy with ignore tested before the default.
getdot_absent_ignore_first(_search, content, args, ignore) ==
    IF ignore THEN Return(None)
    ELSE IF args # <<>> THEN Return(args[1])
    ELSE Raise("ValueError", _search, Dict(content))

\* The key of a non-optional segment is absent.
getdot_absent(_search, content, args, ignore) ==
    IF args # <<>> THEN Return(args[1])
    ELSE IF ignore THEN Return(None)
    ELSE Raise("ValueError", _search, Dict(content))

RECURSIVE getdot(_, _, _, _)

\* getdot with the optional marker tested before the key lookup.
getdot_optional_first(search, content, args, ignore) ==
    LET sp == must_split(search)
        _else == sp[2]
        is_optional == endswith(sp[1], "?")
        _search == rstrip(sp[1], "?")
    IN  IF is_optional THEN Return(None)
        ELSE IF _search \in DOMAIN content
        THEN IF _else = <<>> THEN Return(content[_search])
             ELSE IF IsDict(content[_search])
                  THEN getdot(_else, content[_search].d, args, ignore)
                  ELSE getdot_mismatch(_else, content[_search], ignore)
        ELSE getdot_absent(_search, content, args, ignore)

getdot(search, content, args, ignore) ==
    LET sp == must_split(search)
        _else == sp[2]
        is_optional == endswith(sp[1], "?")
        _search == rstrip(sp[1], "?")
    IN  IF _search \in DOMAIN content
        THEN IF _else = <<>> THEN Return(content[_search])
             ELSE IF IsDict(content[_search])
                  THEN getdot(_else, content[_search].d, args, ignore)
                  ELSE getdot_mismatch(_else, content[_search], ignore)
        ELSE IF is_optional THEN Return(None)
             ELSE getdot_absent(_search, content, args, ignore)

\* -------------------------------------------------------------- setdot
\* The outcome of a call together with the state in which it leaves the
\* mapping object it was given (dict assignment mutates in place).
Effect(out, content) == [out |-> out, content |-> content]

\* The assignment made on a copy: the caller's mapping keeps its old value.
setdot_assign_copy(content, _search, value) ==
    Effect(Return(Dict([content EXCEPT ![_search] = value])), content)

\* content[_search] = value ; return content
setdot_assign(content, _search, value) ==
    LET after == [content EXCEPT ![_search] = value]
    IN  Effect(Return(Dict(after)), after)

RECURSIVE setdot(_, _, _, _)

\* setdot that replaces a non-mapping in its way by the value.
setdot_overwrite(search, content, value, _ignore) ==
    LET sp == must_split(search)
        _search == sp[1]
        _else == sp[2]
    IN  IF _search \in DOMAIN content
        THEN IF _else = <<>> \/ ~IsDict(content[_search])
             THEN setdot_assign(content, _search, value)
             ELSE LET inner == setdot(_else, content[_search].d, value, _ignore)
                      seen == [content EXCEPT ![_search] = Dict(inner.content)]
                  IN  IF inner.out.tag = "raise"
                      THEN Effect(inner.out, seen)
                      ELSE setdot_assign(seen, _search, inner.out.val)
        ELSE IF _ignore THEN Effect(Return(Dict(content)), content)
             ELSE Effect(Raise("ValueError", _search, Dict(content)), content)

\* setdot that creates a missing intermediate mapping before descending.
setdot_vivify(search, content, value, _ignore) ==
    LET sp == must_split(search)
        _search == sp[1]
        _else == sp[2]
        made == IF _search \notin DOMAIN content /\ _else # <<>>
                THEN [k \in DOMAIN content \cup {_search} |->
                        IF k = _search THEN Dict(<<>>) ELSE content[k]]
                ELSE content
    IN  IF _search \in DOMAIN made
        THEN IF _else = <<>> THEN setdot_assign(made, _search, value)
             ELSE IF IsDict(made[_search])
                  THEN LET inner == setdot(_else, made[_search].d, value, _ignore)
                           seen == [made EXCEPT ![_search] = Dict(inner.content)]
                       IN  IF inner.out.tag = "raise"
                           THEN Effect(inner.out, seen)
                           ELSE setdot_assign(seen, _search, inner.out.val)
                  ELSE IF _ignore THEN Effect(Return(Dict(made)), made)
                       ELSE Effect(Raise("ValueError", _else, made[_search]), made)
        ELSE IF _ignore THEN Effect(Return(Dict(made)), made)
             ELSE Effect(Raise("ValueError", _search, Dict(made)), made)

\* setdot whose last segment is assigned without the membership test, so
\* that a missing key is inserted.
setdot_insert(search, content, value, _ignore) ==
    LET sp == must_split(search)
        _search == sp[1]
        _else == sp[2]
        put == [k \in DOMAIN content \cup {_search} |->
                  IF k = _search THEN value ELSE content[k]]
    IN  IF _else = <<>> THEN Effect(Return(Dict(put)), put)
        ELSE IF _search \in DOMAIN content
        THEN IF IsDict(content[_search])
             THEN LET inner == setdot(_else, content[_search].d, value, _ignore)
                      seen == [content EXCEPT ![_search] = Dict(inner.content)]
                  IN  IF inner.out.tag = "raise"
                      THEN Effect(inner.out, seen)
                      ELSE setdot_assign(seen, _search, inner.out.val)
             ELSE IF _ignore THEN Effect(Return(Dict(content)), content)
                  ELSE Effect(Raise("ValueError", _else, content[_search]), content)
        ELSE IF _ignore THEN Effect(Return(Dict(content)), content)
             ELSE Effect(Raise("ValueError", _search, Dict(content)), content)

setdot(search, content, value, _ignore) ==
    LET sp == must_split(search)
        _search == sp[1]
        _else == sp[2]
    IN  IF _search \in DOMAIN content
        THEN IF _else = <<>> THEN setdot_assign(content, _search, value)
             ELSE IF IsDict(content[_search])
                  THEN LET inner == setdot(_else, content[_search].d, value, _ignore)
                           \* the nested mapping as the inner call left it
                           seen == [content EXCEPT ![_search] = Dict(inner.content)]
                       IN  IF inner.out.tag = "raise"
                           THEN Effect(inner.out, seen)
                           ELSE setdot_assign(seen, _search, inner.out.val)
                  ELSE IF _ignore THEN Effect(Return(Dict(content)), content)
                       ELSE Effect(Raise("ValueError", _else, content[_search]), content)
        ELSE IF _ignore THEN Effect(Return(Dict(content)), content)
             ELSE Effect(Raise("ValueError", _search, Dict(content)), content)

\* --------------------------------------------------- what a read leaves
\* A lookup that takes the key of the first segment out of the mapping.
after_read_pop(search, content) ==
    [k \in DOMAIN content \ {must_split(search)[1]} |-> content[k]]

\* The mapping as hasdot and getdot leave it: they test membership and
\* subscript it, and neither assigns to it nor deletes from it.
after_read(search, content) == content

\* ------------------------------------------------------------- inputs
Paths == UNION {[1..n -> Chars] : n \in 0..MaxPathLen}

LeafVals == {"x", "None"}
Absent == [kind |-> "absent", v |-> "", d |-> <<>>]

\* A mapping over the keys "a" and "" ; Absent leaves the key out.
MkMapping(a, e) ==
    [k \in ({KeyA : x \in {a} \ {Absent}} \cup {KeyEmpty : x \in {e} \ {Absent}})
        |-> IF k = KeyA THEN a ELSE e]

\* Mappings nested at most depth deep: the key "a" holds a leaf or a
\* nested mapping, the key "" holds a leaf.
RECURSIVE Mappings(_)
Mappings(depth) ==
    IF depth = 0 THEN {}
    ELSE {MkMapping(a, e) :
            a \in {Absent} \cup {Leaf(x) : x \in LeafVals}
                    \cup {Dict(m) : m \in Mappings(depth - 1)},
            e \in {Absent, Leaf("x")}}

Defaults == {<<>>, <<Leaf("d1"), Leaf("d2")>>}
\* The values written by setdot: a leaf and an (empty) mapping.
NewValues == {Leaf("x"), Dict(MkMapping(Absent, Absent))}

PyBool(b) == Leaf(IF b THEN "True" ELSE "False")

\* ----------------------------------------------------- isinstance_check
\* A runtime value: its class and, for a container, its items in
\* iteration order (the items of a dict are key/value pairs).
Val(cls, items) == [cls |-> cls, items |-> items]
PyNone == Val("NoneType", <<>>)
NoValue == Val("", <<>>)

\* A descriptor: a plain class, typing.Any, typing.NoReturn or a generic
\* alias (the ones with __origin__) with its typing.get_args; ellipsis
\* marks Tuple[D, ...].
Desc(form, name, args, ellipsis) ==
    [form |-> form, name |-> name, args |-> args, ellipsis |-> ellipsis]
Plain(name) == Desc("type", name, <<>>, FALSE)
TAny == Desc("Any", "", <<>>, FALSE)
TNoReturn == Desc("NoReturn", "", <<>>, FALSE)
Generic(form, args) == Desc(form, "", args, FALSE)
TupleOf(d) == Desc("Tuple", "", <<d>>, TRUE)
NoDescriptor == Desc("", "", <<>>, FALSE)

\* issubclass for the classes of the model: bool is a subclass of int,
\* every class is a subclass of object, functions are Callable.
issubclass(cls, base) ==
    \/ cls = base
    \/ base = "object"
    \/ cls = "bool" /\ base = "int"
    \/ cls = "function" /\ base = "Callable"

\* typing.get_origin of a generic alias.
get_origin(t) ==
    CASE t.form = "Union" -> "Union"
      [] t.form = "Dict" -> "dict"
      [] t.form = "List" -> "list"
      [] t.form = "Tuple" -> "tuple"
      [] t.form = "Set" -> "set"
      [] t.form = "Callable" -> "Callable"

is_generic(t) == t.form \notin {"type", "Any", "NoReturn"}

Bool(b) == [tag |-> "return", b |-> b, exc |-> ""]
Throw(exc) == [tag |-> "raise", b |-> FALSE, exc |-> exc]
NoVerdict == [tag |-> "none", b |-> FALSE, exc |-> ""]

\* not_generic that compares the value's class with the type itself.
not_generic_exact(chk, inst) ==
    IF inst = TNoReturn THEN Bool(chk = PyNone)
    ELSE IF inst = TAny THEN Bool(TRUE)
    ELSE Bool(chk.cls = inst.name)

not_generic(chk, inst) ==
    IF inst = TNoReturn THEN Bool(chk = PyNone)
    ELSE IF inst = TAny THEN Bool(TRUE)
    ELSE Bool(issubclass(chk.cls, inst.name))

RECURSIVE isinstance_check(_, _)
RECURSIVE union_any(_, _, _)
RECURSIVE all_items(_, _, _)
RECURSIVE all_pairs(_, _, _)
RECURSIVE all_zip_equal(_, _, _)

\* any() over the Union arguments that looks at the first one only.
union_first_only(chk, args, i) == isinstance_check(chk, args[i])

\* any(isinstance_check(check, typ) for typ in args), from args[i] on:
\* stops at the first True, and an exception ends it.
union_any(chk, args, i) ==
    IF i > Len(args) THEN Bool(FALSE)
    ELSE LET r == isinstance_check(chk, args[i])
         IN  IF r.tag = "raise" \/ r.b THEN r
             ELSE union_any(chk, args, i + 1)

\* all(isinstance_check(i, _dict[0]) for i in iter(check))
all_items(items, args, i) ==
    IF i > Len(items) THEN Bool(TRUE)
    ELSE IF args = <<>> THEN Throw("IndexError")
    ELSE LET r == isinstance_check(items[i], args[1])
         IN  IF r.tag = "raise" \/ ~r.b THEN r
             ELSE all_items(items, args, i + 1)

\* The dict items checked on their keys only.
all_pairs_keys_only(items, args, i) ==
    IF i > Len(items) THEN Bool(TRUE)
    ELSE IF args = <<>> THEN Throw("IndexError")
    ELSE LET r == isinstance_check(items[i].items[1], args[1])
         IN  IF r.tag = "raise" \/ ~r.b THEN r
             ELSE all_pairs(items, args, i + 1)

\* all(isinstance_check(k, _dict[0]) and isinstance_check(v, _dict[1])
\*     for k, v in check.items())
all_pairs(items, args, i) ==
    IF i > Len(items) THEN Bool(TRUE)
    ELSE IF args = <<>> THEN Throw("IndexError")
    ELSE LET k == isinstance_check(items[i].items[1], args[1])
             v == isinstance_check(items[i].items[2], args[2])
             r == IF k.tag = "raise" \/ ~k.b THEN k ELSE v
         IN  IF r.tag = "raise" \/ ~r.b THEN r
             ELSE all_pairs(items, args, i + 1)

\* The pairs taken with zip, which stops at the shorter side.
all_zip_shortest(items, args, i) ==
    IF i > Len(items) \/ i > Len(args) THEN Bool(TRUE)
    ELSE LET r == isinstance_check(items[i], args[i])
         IN  IF r.tag = "raise" \/ ~r.b THEN r
             ELSE all_zip_equal(items, args, i + 1)

\* all(isinstance_check(i[0], i[1]) for i in merge.zip_equal(check, _dict))
\* inside try/except ValueError: zip_equal raises ValueError where one
\* side ends before the other, and the handler answers False.
all_zip_equal(items, args, i) ==
    IF i > Len(items) /\ i > Len(args) THEN Bool(TRUE)
    ELSE IF i > Len(items) \/ i > Len(args) THEN Bool(FALSE)
    ELSE LET r == isinstance_check(items[i], args[i])
         IN  IF r.tag = "raise" \/ ~r.b THEN r
             ELSE all_zip_equal(items, args, i + 1)

isinstance_check(chk, inst) ==
    IF ~is_generic(inst) THEN not_generic(chk, inst)
    ELSE LET origin == get_origin(inst)
         IN  IF origin = "Union" THEN union_any(chk, inst.args, 1)
             ELSE IF ~issubclass(chk.cls, origin) THEN Bool(FALSE)
             ELSE IF origin = "dict" THEN all_pairs(chk.items, inst.args, 1)
             ELSE IF origin \in {"tuple", "list"}
                  THEN IF inst.ellipsis \/ origin # "tuple"
                       THEN all_items(chk.items, inst.args, 1)
                       ELSE all_zip_equal(chk.items, inst.args, 1)
             ELSE IF origin = "Callable" THEN Bool(TRUE)
             ELSE Throw("NotImplementedError")

\* --------------------------------------------------- matcher's inputs
Atoms == {PyNone, Val("int", <<>>), Val("bool", <<>>), Val("str", <<>>)}

SeqsUpTo(S, n) == UNION {[1..k -> S] : k \in 0..n}

\* What a list, tuple or set of the model may hold.
Items == Atoms \cup {Val("set", <<>>)}

Values ==
    Atoms
    \cup {Val(c, items) : c \in {"list", "tuple", "set"},
                          items \in SeqsUpTo(Items, MaxItems)}
    \cup {Val("dict", items) :
            items \in SeqsUpTo({Val("pair", <<Val("str", <<>>), a>>) : a \in Atoms},
                               MaxItems)}
    \cup {Val("function", <<>>)}

PlainTypes == {Plain("int"), Plain("str"), Plain("NoneType"), Plain("set"),
               TAny, TNoReturn}
ElemTypes == {Plain("int"), Plain("str")}

\* The members of a Union: plain types and one-level generic aliases.
Members ==
    PlainTypes
    \cup {Generic(f, <<e>>) : f \in {"List", "Set"}, e \in ElemTypes}
    \cup {Generic("Callable", <<>>)}

Distinct(seq) == \A i, j \in 1..Len(seq) : i # j => seq[i] # seq[j]

Unions ==
    {Generic("Union", args) :
        args \in {a \in SeqsUpTo(Members, MaxUnion) : Len(a) >= 2 /\ Distinct(a)}}

\* The argument descriptors of a Tuple or Dict alias.
TupleArgs == ElemTypes \cup {Generic("Set", <<Plain("int")>>)}
IntOrStr == Generic("Union", <<Plain("int"), Plain("str")>>)

Descriptors ==
    Members \cup Unions
    \cup {TupleOf(e) : e \in TupleArgs}
    \cup {Generic("Tuple", args) : args \in SeqsUpTo(TupleArgs, MaxArity)}
    \cup {Generic("Dict", <<k, e>>) : k \in ElemTypes, e \in ElemTypes \cup {IntOrStr}}
    \cup {Generic("List", <<IntOrStr>>)}

\* --------------------------------------------------------------- state
NoCall == [op |-> "none", search |-> <<>>, args |-> <<>>, ignore |-> FALSE,
           value |-> None, before |-> <<>>]

VARIABLES content, pc, call, result, check, instance, verdict
\* The frames of a dot-path call in progress.
VARIABLES stack
\* One call of merge_dict: its arguments and its outcome.
VARIABLES dicts, mode, merged
\* One call of a date function: its argument and its outcome.
VARIABLES date_call, date_out
\* The loop of writer_changelog: the lines read, the position in them, the
\* two flags and the lines written so far.
VARIABLES changes, line_no, skip_line, written, writer
vars == <<content, pc, call, result, check, instance, verdict, stack,
          dicts, mode, merged, date_call, date_out,
          changes, line_no, skip_line, written, writer>>
dotVars == <<content, call, result>>
matchVars == <<check, instance, verdict>>
recVars == <<stack>>
mergeVars == <<dicts, mode, merged>>
dateVars == <<date_call, date_out>>
logVars == <<changes, line_no, skip_line, written, writer>>
\* What the dot-path and matcher calls leave alone.
otherVars == <<recVars, mergeVars, dateVars, logVars>>

\* The parts of the state that take no part in a specification.
RecIdle == stack = <<>>
MergeIdle == dicts = <<>> /\ mode = "" /\ merged = NoResult
DateIdle == date_call = <<>> /\ date_out = NoResult
LogIdle ==
    /\ changes = <<>> /\ line_no = 0 /\ skip_line = TRUE
    /\ written = FALSE /\ writer = <<>>
MatchIdle == check = NoValue /\ instance = NoDescriptor /\ verdict = NoVerdict
DotIdle == call = NoCall /\ result = NoResult

Init ==
    /\ content \in Mappings(MaxDepth)
    /\ pc = "idle"
    /\ call = NoCall
    /\ result = NoResult
    /\ check = NoValue
    /\ instance = NoDescriptor
    /\ verdict = NoVerdict
    /\ RecIdle /\ MergeIdle /\ DateIdle /\ LogIdle

CallHasdot ==
    /\ pc = "idle"
    /\ \E search \in Paths :
        /\ call' = [NoCall EXCEPT !.op = "hasdot", !.search = search,
                                  !.before = content]
        /\ result' = Return(PyBool(hasdot(search, content)))
        /\ content' = after_read(search, content)
    /\ pc' = "done"
    /\ UNCHANGED <<matchVars, otherVars>>

CallGetdot ==
    /\ pc = "idle"
    /\ \E search \in Paths, args \in Defaults, ignore \in BOOLEAN :
        /\ call' = [NoCall EXCEPT !.op = "getdot", !.search = search,
                                  !.args = args, !.ignore = ignore,
                                  !.before = content]
        /\ result' = getdot(search, content, args, ignore)
        /\ content' = after_read(search, content)
    /\ pc' = "done"
    /\ UNCHANGED <<matchVars, otherVars>>

CallSetdot ==
    /\ pc = "idle"
    /\ \E search \in Paths, value \in NewValues, ignore \in BOOLEAN :
        LET r == setdot(search, content, value, ignore)
        IN  /\ call' = [NoCall EXCEPT !.op = "setdot", !.search = search,
                                      !.value = value, !.ignore = ignore,
                                      !.before = content]
            /\ result' = r.out
            /\ content' = r.content
    /\ pc' = "done"
    /\ UNCHANGED <<matchVars, otherVars>>

\* The caller takes the outcome; the mapping stays as the call left it.
Finish ==
    /\ pc = "done"
    /\ pc' = "idle"
    /\ call' = NoCall
    /\ result' = NoResult
    /\ UNCHANGED <<content, matchVars, otherVars>>

Next == CallHasdot \/ CallGetdot \/ CallSetdot \/ Finish

Spec == Init /\ [][Next]_vars

\* One call of isinstance_check(check, instance).
InitMatch ==
    /\ content = <<>>
    /\ pc = "idle"
    /\ call = NoCall
    /\ result = NoResult
    /\ check = NoValue
    /\ instance = NoDescriptor
    /\ verdict = NoVerdict
    /\ RecIdle /\ MergeIdle /\ DateIdle /\ LogIdle

CallIsinstanceCheck ==
    /\ pc = "idle"
    /\ \E chk \in Values, inst \in Descriptors :
        /\ check' = chk
        /\ instance' = inst
        /\ verdict' = isinstance_check(chk, inst)
    /\ pc' = "done"
    /\ UNCHANGED <<dotVars, otherVars>>

FinishMatch ==
    /\ pc = "done"
    /\ pc' = "idle"
    /\ check' = NoValue
    /\ instance' = NoDescriptor
    /\ verdict' = NoVerdict
    /\ UNCHANGED <<dotVars, otherVars>>

NextMatch == CallIsinstanceCheck \/ FinishMatch

SpecMatch == InitMatch /\ [][NextMatch]_vars

\* ------------------------------------------------- reading a call's outcome
\* The dot-separated segments of a path, in order.  A remainder that is
\* empty ends the path, so one trailing dot adds no segment.
RECURSIVE SplitAll(_)
SplitAll(s) ==
    LET i == FirstIndex(s, ".")
    IN  IF i = 0 THEN <<s>>
        ELSE <<SubSeq(s, 1, i - 1)>> \o SplitAll(SubSeq(s, i + 1, Len(s)))

Segments(p) ==
    LET all == SplitAll(p)
    IN  IF Len(all) > 1 /\ all[Len(all)] = <<>>
        THEN SubSeq(all, 1, Len(all) - 1)
        ELSE all

\* Where a sequence of keys leads in a mapping: "ok" with the value at the
\* last key, "absent" with the mapping that lacks keys[at], or "mismatch"
\* with the non-mapping found at keys[at] while keys remain.
RECURSIVE Walk(_, _, _)
Walk(keys, m, i) ==
    IF keys[i] \notin DOMAIN m THEN [st |-> "absent", at |-> i, val |-> Dict(m)]
    ELSE IF i = Len(keys) THEN [st |-> "ok", at |-> i, val |-> m[keys[i]]]
    ELSE IF IsDict(m[keys[i]]) THEN Walk(keys, m[keys[i]].d, i + 1)
    ELSE [st |-> "mismatch", at |-> i, val |-> m[keys[i]]]

\* What is left of a path after its first i segments and their dots.
RECURSIVE Remainder(_, _)
Remainder(s, i) ==
    IF i = 0 THEN s
    ELSE Remainder(SubSeq(s, FirstIndex(s, ".") + 1, Len(s)), i - 1)

NoMarker(p) == \A i \in 1..Len(p) : p[i] # "?"
Marked(seg) == endswith(seg, "?")
Keys(segs) == [i \in 1..Len(segs) |-> rstrip(segs[i], "?")]

Done(op) == pc = "done" /\ call.op = op
\* The walk of the call's path as written (hasdot, setdot) and with the
\* optional markers stripped (getdot), in the mapping before the call.
Literal == Walk(Segments(call.search), call.before, 1)
Stripped == Walk(Keys(Segments(call.search)), call.before, 1)
PlainCall == call.args = <<>> /\ ~call.ignore
IsValueError(out) == out.tag = "raise" /\ out.exc = "ValueError"

\* C1: for a path without '?' whose segments all resolve through nested
\* mappings, hasdot returns True and getdot (no default, ignore=False)
\* returns exactly the value stored at the last segment.
C1_ResolvedPathFound ==
    (pc = "done" /\ NoMarker(call.search) /\ Literal.st = "ok") =>
        /\ call.op = "hasdot" => result = Return(PyBool(TRUE))
        /\ (call.op = "getdot" /\ PlainCall) => result = Return(Literal.val)

C1_Witness ==
    /\ Done("getdot") /\ PlainCall /\ NoMarker(call.search)
    /\ Len(Segments(call.search)) = 2
    /\ Literal.st = "ok"
    /\ result = Return(Leaf("x"))

\* C2: write/read round trip: after setdot(p, m, v) on a path without '?'
\* that fully resolves, getdot(p, m) returns v.
C2_SetThenGet ==
    (Done("setdot") /\ NoMarker(call.search) /\ Literal.st = "ok") =>
        /\ result.tag = "return"
        /\ getdot(call.search, content, <<>>, FALSE) = Return(call.value)

C2_Witness ==
    /\ Done("setdot") /\ NoMarker(call.search)
    /\ Len(Segments(call.search)) = 2
    /\ Literal.st = "ok" /\ Literal.val # call.value
    /\ getdot(call.search, content, <<>>, FALSE) = Return(call.value)

\* C3: when getdot reaches a non-optional segment whose key is absent, at
\* any depth, the first positional default is returned if one was given
\* (also under ignore=True); otherwise ignore=True gives None; otherwise
\* the call raises the not-found ValueError.
C3_AbsentPrecedence ==
    (Done("getdot") /\ Stripped.st = "absent"
        /\ ~Marked(Segments(call.search)[Stripped.at])) =>
        IF call.args # <<>> THEN result = Return(call.args[1])
        ELSE IF call.ignore THEN result = Return(None)
        ELSE /\ IsValueError(result)
             /\ result.name = Keys(Segments(call.search))[Stripped.at]
             /\ result.val = Stripped.val

C3_Witness ==
    /\ Done("getdot") /\ Stripped.st = "absent" /\ Stripped.at = 2
    /\ ~Marked(Segments(call.search)[2])
    /\ call.args # <<>> /\ call.ignore
    /\ result = Return(Leaf("d1"))

\* The outcome of getdot on segments that carry no optional marker.
Unmarked(w) ==
    IF w.st = "ok" THEN Return(w.val)
    ELSE IF w.st = "mismatch"
         THEN IF call.ignore THEN Return(None)
              ELSE Raise("ValueError", Remainder(call.search, w.at), w.val)
    ELSE IF call.args # <<>> THEN Return(call.args[1])
    ELSE IF call.ignore THEN Return(None)
    ELSE Raise("ValueError", Keys(Segments(call.search))[w.at], w.val)

\* C4: a '?' marker changes getdot's result only when the key is absent:
\* with the key (marker stripped) present the traversal goes on as for the
\* unmarked segment; with it absent the call returns None at once, at any
\* depth, whatever default or ignore was given, and never raises.
C4_OptionalMarker ==
    (Done("getdot") /\ ~NoMarker(call.search)) =>
        IF Stripped.st = "absent" /\ Marked(Segments(call.search)[Stripped.at])
        THEN result = Return(None)
        ELSE result = Unmarked(Stripped)

C4_Witness ==
    /\ Done("getdot") /\ Stripped.st = "absent" /\ Stripped.at = 2
    /\ Marked(Segments(call.search)[2])
    /\ call.args # <<>> /\ ~call.ignore
    /\ result = Return(None)

\* C5: when getdot finds a segment's key but the value is not a mapping
\* and segments remain, it returns None under ignore=True and otherwise
\* raises the mismatch ValueError; a positional default is never returned.
C5_Mismatch ==
    (Done("getdot") /\ Stripped.st = "mismatch") =>
        /\ call.ignore => result = Return(None)
        /\ ~call.ignore =>
            /\ IsValueError(result)
            /\ result.name = Remainder(call.search, Stripped.at)
            /\ result.val = Stripped.val
        /\ call.args # <<>> => result # Return(call.args[1])

C5_Witness ==
    /\ Done("getdot") /\ Stripped.st = "mismatch"
    /\ call.args # <<>> /\ ~call.ignore
    /\ IsValueError(result)

\* C6: setdot with ignore=True on a path that does not resolve returns the
\* same content with every mapping and value unchanged.
C6_IgnoreLeavesContent ==
    (Done("setdot") /\ call.ignore /\ Literal.st # "ok") =>
        /\ result = Return(Dict(call.before))
        /\ content = call.before

C6_Witness ==
    /\ Done("setdot") /\ call.ignore
    /\ Literal.st = "mismatch" /\ Literal.at = 2
    /\ content = call.before

\* C7: setdot without ignore on a path that does not resolve raises one
\* ValueError and leaves the caller's content, nested mappings included,
\* as it was before the call.
C7_NoPartialSuccess ==
    (Done("setdot") /\ ~call.ignore /\ Literal.st # "ok") =>
        /\ IsValueError(result)
        /\ content = call.before

C7_Witness ==
    /\ Done("setdot") /\ ~call.ignore
    /\ Literal.st = "absent" /\ Literal.at = 2
    /\ IsValueError(result)

\* C8: hasdot has no error outcome: it returns a boolean for every path
\* and mapping, and False whenever a segment's key is absent or a
\* non-final segment's value is not a mapping.
C8_HasdotTotal ==
    Done("hasdot") =>
        /\ result \in {Return(PyBool(TRUE)), Return(PyBool(FALSE))}
        /\ Literal.st # "ok" => result = Return(PyBool(FALSE))

C8_Witness ==
    /\ Done("hasdot") /\ Literal.st = "mismatch" /\ Literal.at = 2
    /\ result = Return(PyBool(FALSE))

\* ---------------------------------------- reading isinstance_check's verdict
Checked == pc = "done" /\ instance # NoDescriptor
Matches(chk, inst) == isinstance_check(chk, inst) = Bool(TRUE)
Range(seq) == {seq[i] : i \in 1..Len(seq)}
Orderings(args) ==
    {p \in [1..Len(args) -> Range(args)] : Range(p) = Range(args)}
AnyMemberMatches ==
    \E i \in 1..Len(instance.args) : Matches(check, instance.args[i])
NoMemberRaises ==
    \A i \in 1..Len(instance.args) :
        isinstance_check(check, instance.args[i]).tag = "return"

Supported(inst) ==
    inst.form \in {"type", "Any", "NoReturn", "Union", "Dict", "List",
                   "Tuple", "Callable"}

\* C10: for a descriptor shape that is not a plain type, a Union, a
\* mapping, a sequence, a tuple or a callable, isinstance_check raises and
\* never answers with a boolean, whatever the value is.
C10_UnsupportedRaises ==
    (Checked /\ ~Supported(instance)) => verdict.tag = "raise"

FixedTuple ==
    /\ Checked /\ instance.form = "Tuple" /\ ~instance.ellipsis
    /\ check.cls = "tuple"
Paired ==
    {i \in 1..Len(check.items) : i <= Len(instance.args)}
AllPairsMatch ==
    \A i \in Paired : Matches(check.items[i], instance.args[i])
NoPairRaises ==
    \A i \in Paired :
        isinstance_check(check.items[i], instance.args[i]).tag = "return"
SameLength == Len(check.items) = Len(instance.args)

Homogeneous ==
    /\ Checked
    /\ \/ instance.form = "Dict" /\ check.cls = "dict"
       \/ instance.form = "List" /\ check.cls = "list"
       \/ instance.form = "Tuple" /\ instance.ellipsis /\ check.cls = "tuple"
EntryConforms(item) ==
    IF instance.form = "Dict"
    THEN /\ Matches(item.items[1], instance.args[1])
         /\ Matches(item.items[2], instance.args[2])
    ELSE Matches(item, instance.args[1])

Mro(cls) == IF cls = "bool" THEN {"bool", "int", "object"} ELSE {cls, "object"}

\* C13: on a non-generic descriptor, Any matches every value, NoReturn
\* matches a value iff it is None, and any other plain type matches iff
\* the value's runtime type is that type or a subtype of it.
C13_BaseCases ==
    (Checked /\ instance.form \in {"type", "Any", "NoReturn"}) =>
        verdict = Bool(CASE instance.form = "Any" -> TRUE
                         [] instance.form = "NoReturn" -> check.cls = "NoneType"
                         [] OTHER -> instance.name \in Mro(check.cls))

C13_Witness ==
    /\ Checked /\ instance = Plain("int") /\ check.cls = "bool"
    /\ verdict = Bool(TRUE)

\* ------------------------------------------- the recursion, call by call
\* A frame of hasdot, getdot or setdot: the path and the mapping it was
\* called with.
Frame(search, m) == [search |-> search, content |-> m]

\* The key a frame looks up: getdot strips the optional markers first.
frame_key(op, search) ==
    LET _search == must_split(search)[1]
    IN  IF op = "getdot" THEN rstrip(_search, "?") ELSE _search

\* A recursive call made with the caller's own path.
descend_same(search) == search

\* The path of the recursive call: what follows the first segment.
descend_path(search) == must_split(search)[2]

\* The frame makes a recursive call: its key is there, segments remain and
\* the key holds a mapping.
recurses(op, frame) ==
    LET k == frame_key(op, frame.search)
    IN  /\ k \in DOMAIN frame.content
        /\ must_split(frame.search)[2] # <<>>
        /\ IsDict(frame.content[k])

Top == stack[Len(stack)]

InitRec ==
    /\ content \in Mappings(MaxDepth)
    /\ pc = "idle"
    /\ DotIdle /\ RecIdle /\ MatchIdle /\ MergeIdle /\ DateIdle /\ LogIdle

\* The caller makes the outermost call.
EnterCall ==
    /\ pc = "idle"
    \* the other arguments are handed down as they are and decide no call
    /\ \E op \in {"hasdot", "getdot", "setdot"}, search \in Paths :
        call' = [NoCall EXCEPT !.op = op, !.search = search,
                               !.value = Leaf("x"), !.before = content]
    /\ stack' = <<Frame(call'.search, content)>>
    /\ pc' = "running"
    /\ UNCHANGED <<content, result, matchVars, mergeVars, dateVars, logVars>>

\* The innermost frame calls itself on the nested mapping.
Descend ==
    /\ pc = "running"
    /\ recurses(call.op, Top)
    /\ stack' = Append(stack,
                       Frame(descend_path(Top.search),
                             Top.content[frame_key(call.op, Top.search)].d))
    /\ UNCHANGED <<content, pc, call, result, matchVars, mergeVars,
                   dateVars, logVars>>

\* The innermost frame makes no further call and ends by itself.
BaseCase ==
    /\ pc = "running"
    /\ ~recurses(call.op, Top)
    /\ LET r == CASE call.op = "hasdot" ->
                       Effect(Return(PyBool(hasdot(Top.search, Top.content))),
                              Top.content)
                  [] call.op = "getdot" ->
                       Effect(getdot(Top.search, Top.content, call.args,
                                     call.ignore), Top.content)
                  [] OTHER ->
                       setdot(Top.search, Top.content, call.value, call.ignore)
       IN  /\ result' = r.out
           /\ stack' = [stack EXCEPT ![Len(stack)].content = r.content]
    /\ pc' = "returning"
    /\ UNCHANGED <<content, call, matchVars, mergeVars, dateVars, logVars>>

\* A frame hands its outcome to its caller; setdot's caller stores the
\* mapping it got back under its key and returns its own mapping.
ReturnToCaller ==
    /\ pc = "returning"
    /\ Len(stack) > 1
    /\ LET caller == stack[Len(stack) - 1]
           k == frame_key(call.op, caller.search)
           seen == [caller.content EXCEPT ![k] = Dict(Top.content)]
           below == SubSeq(stack, 1, Len(stack) - 2)
       IN  IF call.op = "setdot"
           THEN /\ stack' = Append(below, Frame(caller.search, seen))
                /\ result' = IF result.tag = "return" THEN Return(Dict(seen))
                             ELSE result
           ELSE /\ stack' = Append(below, caller)
                /\ UNCHANGED result
    /\ UNCHANGED <<content, pc, call, matchVars, mergeVars, dateVars, logVars>>

\* The outermost frame returns to the caller of the function.
Complete ==
    /\ pc = "returning"
    /\ Len(stack) = 1
    /\ content' = Top.content
    /\ stack' = <<>>
    /\ pc' = "done"
    /\ UNCHANGED <<call, result, matchVars, mergeVars, dateVars, logVars>>

\* One step of a call in progress.
Step == Descend \/ BaseCase \/ ReturnToCaller \/ Complete

\* One call, from its entry to its return.
NextRec == EnterCall \/ Step

\* A call in progress keeps taking steps: the interpreter runs the one
\* thread until the call returns.
SpecRec == InitRec /\ [][NextRec]_vars /\ WF_vars(Step)

NumSegments(p) == Len(SplitAll(p))

OneSegmentFewer ==
    \A i \in 2..Len(stack) :
        NumSegments(stack[i].search) = NumSegments(stack[i - 1].search) - 1
DepthBounded == Len(stack) <= NumSegments(call.search)

\* The unrolled recursion computes what the functions compute.
RecAgrees ==
    pc = "done" =>
        CASE call.op = "hasdot" ->
               /\ result = Return(PyBool(hasdot(call.search, call.before)))
               /\ content = call.before
          [] call.op = "getdot" ->
               /\ result = getdot(call.search, call.before, call.args,
                                  call.ignore)
               /\ content = call.before
          [] OTHER ->
               Effect(result, content)
                 = setdot(call.search, call.before, call.value, call.ignore)

\* C14: hasdot, getdot and setdot always terminate: every recursive call is
\* made with a path that has exactly one segment fewer than its caller's,
\* the recursion depth never exceeds the number of dot-separated segments
\* of the original path, and a call in progress always returns.
C14_Terminates ==
    /\ [](OneSegmentFewer /\ DepthBounded)
    /\ (pc = "running") ~> (pc = "done")

C14_Witness ==
    /\ pc = "returning"
    /\ call.op = "setdot"
    /\ NumSegments(call.search) = 2
    /\ Len(stack) = 2
    /\ result.tag = "return"

RECURSIVE SameExceptAt(_, _, _, _)
SameExceptAt(old, new, keys, i) ==
    /\ DOMAIN new = DOMAIN old
    /\ \A k \in DOMAIN old : k # keys[i] => new[k] = old[k]
    /\ (keys[i] \in DOMAIN old /\ i < Len(keys)) =>
          IF IsDict(old[keys[i]]) /\ IsDict(new[keys[i]])
          THEN SameExceptAt(old[keys[i]].d, new[keys[i]].d, keys, i + 1)
          ELSE new[keys[i]] = old[keys[i]]

\* C17: a setdot(p, m, v) that returns changes m only at p: it returns m
\* itself, the key set of m and of every mapping nested in m is as before
\* the call (no key is inserted; when p does not resolve nothing changes)
\* and every value not located at p is unchanged.
C17_SetdotFrame ==
    (Done("setdot") /\ result.tag = "return") =>
        /\ result.val = Dict(content)
        /\ SameExceptAt(call.before, content, Segments(call.search), 1)
        /\ Literal.st # "ok" => content = call.before

C17_Witness ==
    /\ Done("setdot") /\ result.tag = "return"
    /\ Len(Segments(call.search)) = 2
    /\ Literal.st = "ok"
    /\ content # call.before
    /\ KeyEmpty \in DOMAIN content
    /\ KeyEmpty \in DOMAIN content[KeyA].d
    /\ Segments(call.search)[2] = KeyA

\* ----------------------------------------------------------- merge_dict
MaxDicts == 2

\* A dict key with its type: keyword arguments take str keys only.
StrKey == <<"str", "k">>
IntKey == <<"int", "1">>
DictKeys == {StrKey, IntKey}
DictVals == {"v", "w"}
\* The dicts handed to merge_dict: every mapping of some of the keys.
Dicts == UNION {[ks -> DictVals] : ks \in SUBSET DictKeys}
Modes == {"chain", "update", "reduce", "other"}

\* The outcome of merge_dict: the dict returned and which object it is,
\* 0 for a dict made by the call and i for the i-th argument itself.
Fresh == 0
Merged(obj, d) == [tag |-> "return", obj |-> obj, val |-> d, exc |-> ""]
MergeRaise(exc) == [tag |-> "raise", obj |-> Fresh, val |-> <<>>, exc |-> exc]

Reversed(sq) == [i \in 1..Len(sq) |-> sq[Len(sq) + 1 - i]]

\* dict.update / dict(x, **y) on the values: y's entries over x's.
Updated(x, y) ==
    [k \in DOMAIN x \cup DOMAIN y |-> IF k \in DOMAIN y THEN y[k] ELSE x[k]]

\* ChainMap lookup: the first of the maps that has the key.
ChainLookup(maps, k) ==
    maps[CHOOSE i \in 1..Len(maps) :
            /\ k \in DOMAIN maps[i]
            /\ \A j \in 1..(i - 1) : k \notin DOMAIN maps[j]][k]

\* dict(ChainMap({}, *reversed(_dicts)))
chain_map(_dicts) ==
    LET maps == <<<<>>>> \o Reversed(_dicts)
        keys == UNION {DOMAIN maps[i] : i \in 1..Len(maps)}
    IN  Merged(Fresh, [k \in keys |-> ChainLookup(maps, k)])

\* result = {} ; for _dict in _dicts: result.update(_dict)
RECURSIVE update_loop(_, _, _)
update_loop(_result, _dicts, i) ==
    IF i > Len(_dicts) THEN _result
    ELSE update_loop(Updated(_result, _dicts[i]), _dicts, i + 1)

update_map(_dicts) == Merged(Fresh, update_loop(<<>>, _dicts, 1))

\* lambda x, y: dict(x, **y): a key of y that is not a str is a TypeError.
dict_kw(x, y) ==
    IF \E k \in DOMAIN y : k[1] # "str"
    THEN MergeRaise("TypeError")
    ELSE Merged(Fresh, Updated(x.val, y))

\* functools.reduce without an initial value: a TypeError on no items,
\* the first item itself on one, the function folded over the rest.
RECURSIVE reduce_loop(_, _, _)
reduce_loop(acc, _dicts, i) ==
    IF acc.tag = "raise" \/ i > Len(_dicts) THEN acc
    ELSE reduce_loop(dict_kw(acc, _dicts[i]), _dicts, i + 1)

reduce_map(_dicts) ==
    IF _dicts = <<>> THEN MergeRaise("TypeError")
    ELSE reduce_loop(Merged(1, _dicts[1]), _dicts, 2)

merge_dict(_dicts, _mode) ==
    CASE _mode = "chain" -> chain_map(_dicts)
      [] _mode = "update" -> update_map(_dicts)
      [] _mode = "reduce" -> reduce_map(_dicts)
      [] OTHER -> Merged(Fresh, <<>>)

InitMerge ==
    /\ content = <<>>
    /\ pc = "idle"
    /\ DotIdle /\ RecIdle /\ MatchIdle /\ MergeIdle /\ DateIdle /\ LogIdle

\* One call merge_dict(*dicts, mode=mode); no mode assigns to an argument.
CallMergeDict ==
    /\ pc = "idle"
    /\ \E ds \in SeqsUpTo(Dicts, MaxDicts), m \in Modes :
        /\ dicts' = ds
        /\ mode' = m
        /\ merged' = merge_dict(ds, m)
    /\ pc' = "done"
    /\ UNCHANGED <<dotVars, matchVars, recVars, dateVars, logVars>>

FinishMerge ==
    /\ pc = "done"
    /\ pc' = "idle"
    /\ dicts' = <<>>
    /\ mode' = ""
    /\ merged' = NoResult
    /\ UNCHANGED <<dotVars, matchVars, recVars, dateVars, logVars>>

NextMerge == CallMergeDict \/ FinishMerge

SpecMerge == InitMerge /\ [][NextMerge]_vars

AllKeys == UNION {DOMAIN dicts[i] : i \in 1..Len(dicts)}
LastWith(k) ==
    CHOOSE i \in 1..Len(dicts) :
        /\ k \in DOMAIN dicts[i]
        /\ \A j \in (i + 1)..Len(dicts) : k \notin DOMAIN dicts[j]

\* C16: for any number of input dictionaries and each of the modes chain,
\* update and reduce, merge_dict returns a new dict, distinct from every
\* input, whose keys are the union of the inputs' keys and where each key
\* maps to the value of the last input dictionary that contains it.
C16_MergedIsNewUnion ==
    (pc = "done" /\ mode \in {"chain", "update", "reduce"}) =>
        /\ merged.tag = "return"
        /\ merged.obj = Fresh
        /\ DOMAIN merged.val = AllKeys
        /\ \A k \in AllKeys : merged.val[k] = dicts[LastWith(k)][k]

\* The same for the modes chain and update alone.
MergedChainUpdate ==
    (pc = "done" /\ mode \in {"chain", "update"}) =>
        /\ merged.tag = "return"
        /\ merged.obj = Fresh
        /\ DOMAIN merged.val = AllKeys
        /\ \A k \in AllKeys : merged.val[k] = dicts[LastWith(k)][k]

\* ------------------------------------------------------------- datetimes
NumYears == 2
FirstYear == 2023
Years == FirstYear..(FirstYear + NumYears - 1)
\* Times of day: midnight and one later hour.
Hours == {0, 10}

datetime(y, m, d, h) == [y |-> y, m |-> m, d |-> d, h |-> h]

IsLeap(y) == y % 4 = 0 /\ (y % 100 # 0 \/ y % 400 = 0)
DaysIn(y, m) ==
    CASE m = 2 -> IF IsLeap(y) THEN 29 ELSE 28
      [] m \in {4, 6, 9, 11} -> 30
      [] OTHER -> 31

\* The datetimes the constructor accepts: the day exists in the month.
Datetimes ==
    {x \in {datetime(y, m, d, h) :
                y \in Years, m \in 1..12, d \in 1..31, h \in Hours} :
        x.d <= DaysIn(x.y, x.m)}

\* datetime ordering: a >= b.
AtLeast(a, b) ==
    \/ a.y > b.y
    \/ a.y = b.y /\ a.m > b.m
    \/ a.y = b.y /\ a.m = b.m /\ a.d > b.d
    \/ a.y = b.y /\ a.m = b.m /\ a.d = b.d /\ a.h >= b.h

NextDay(x) ==
    IF x.d < DaysIn(x.y, x.m) THEN [x EXCEPT !.d = x.d + 1]
    ELSE IF x.m < 12 THEN [x EXCEPT !.m = x.m + 1, !.d = 1]
    ELSE [x EXCEPT !.y = x.y + 1, !.m = 1, !.d = 1]

PrevDay(x) ==
    IF x.d > 1 THEN [x EXCEPT !.d = x.d - 1]
    ELSE IF x.m > 1 THEN [x EXCEPT !.m = x.m - 1, !.d = DaysIn(x.y, x.m - 1)]
    ELSE [x EXCEPT !.y = x.y - 1, !.m = 12, !.d = 31]

\* x + timedelta(days=n); the time of day is kept.
RECURSIVE timedelta(_, _)
timedelta(x, n) ==
    IF n = 0 THEN x
    ELSE IF n > 0 THEN timedelta(NextDay(x), n - 1)
    ELSE timedelta(PrevDay(x), n + 1)

\* x - relativedelta(months=n): the month moves back and the day is cut
\* down to the length of the month arrived at.
relativedelta_months(x, n) ==
    LET total == x.y * 12 + (x.m - 1) - n
        y == total \div 12
        m == (total % 12) + 1
    IN  [x EXCEPT !.y = y, !.m = m,
                  !.d = IF x.d > DaysIn(y, m) THEN DaysIn(y, m) ELSE x.d]

last_dom(x) ==
    LET next_month == timedelta([x EXCEPT !.d = 28], 4)
    IN  timedelta(next_month, 0 - next_month.d)

\* first(iterable, condition=lambda x: x >= bound): the first item that
\* satisfies the condition; StopIteration when there is none (no default).
first(iterable, bound) ==
    IF \E i \in 1..Len(iterable) : AtLeast(iterable[i], bound)
    THEN Return(iterable[CHOOSE i \in 1..Len(iterable) :
                    /\ AtLeast(iterable[i], bound)
                    /\ \A j \in 1..(i - 1) : ~AtLeast(iterable[j], bound)])
    ELSE Raise("StopIteration", <<>>, None)

last_doq(x) ==
    LET candidates == <<datetime(x.y - 1, 12, 31, 0),
                        datetime(x.y, 3, 31, 0),
                        datetime(x.y, 6, 30, 0),
                        datetime(x.y, 9, 30, 0),
                        datetime(x.y, 12, 31, 0)>>
    IN  first(candidates, x)

Freqs == {"D", "W", "M", "Q", "Y"}

calc_data_date_with_freq(x, freq) ==
    CASE freq \in {"D", "W"} -> Return(x)
      [] freq = "M" ->
           IF x # last_dom(x)
           THEN Return(relativedelta_months(last_dom(x), 1))
           ELSE Return(x)
      [] freq = "Q" ->
           LET q == last_doq(x)
           IN  IF q.tag = "raise" THEN q
               ELSE IF x # q.val
               THEN Return(last_dom(relativedelta_months(q.val, 3)))
               ELSE Return(x)
      [] OTHER ->
           LET eoy == [x EXCEPT !.m = 12, !.d = 31]
           IN  IF x # eoy THEN Return(relativedelta_months(eoy, 12))
               ELSE Return(x)

DateCall(fn, x, freq) == [fn |-> fn, dt |-> x, freq |-> freq]

InitDate ==
    /\ content = <<>>
    /\ pc = "idle"
    /\ DotIdle /\ RecIdle /\ MatchIdle /\ MergeIdle /\ DateIdle /\ LogIdle

CallLastDom ==
    /\ pc = "idle"
    /\ \E x \in Datetimes :
        /\ date_call' = DateCall("last_dom", x, "")
        /\ date_out' = Return(last_dom(x))
    /\ pc' = "done"
    /\ UNCHANGED <<dotVars, matchVars, recVars, mergeVars, logVars>>

CallLastDoq ==
    /\ pc = "idle"
    /\ \E x \in Datetimes :
        /\ date_call' = DateCall("last_doq", x, "")
        /\ date_out' = last_doq(x)
    /\ pc' = "done"
    /\ UNCHANGED <<dotVars, matchVars, recVars, mergeVars, logVars>>

CallCalcDataDate ==
    /\ pc = "idle"
    /\ \E x \in Datetimes, freq \in Freqs :
        /\ date_call' = DateCall("calc_data_date_with_freq", x, freq)
        /\ date_out' = calc_data_date_with_freq(x, freq)
    /\ pc' = "done"
    /\ UNCHANGED <<dotVars, matchVars, recVars, mergeVars, logVars>>

FinishDate ==
    /\ pc = "done"
    /\ pc' = "idle"
    /\ date_call' = <<>>
    /\ date_out' = NoResult
    /\ UNCHANGED <<dotVars, matchVars, recVars, mergeVars, logVars>>

NextDate == CallLastDom \/ CallLastDoq \/ CallCalcDataDate \/ FinishDate

SpecDate == InitDate /\ [][NextDate]_vars

DateDone(fn) == pc = "done" /\ date_call.fn = fn
SameDay(a, b) == a.y = b.y /\ a.m = b.m /\ a.d = b.d
IsMonthEnd(x) == x.d = DaysIn(x.y, x.m)
\* The last day of the month before x's.
PrecedingMonthEnd(x) ==
    IF x.m = 1 THEN datetime(x.y - 1, 12, 31, x.h)
    ELSE datetime(x.y, x.m - 1, DaysIn(x.y, x.m - 1), x.h)
\* Midnight of the last day of the calendar quarter of x.
QuarterEnd(x) ==
    LET m == 3 * (((x.m - 1) \div 3) + 1)
    IN  datetime(x.y, m, DaysIn(x.y, m), 0)

\* last_dom gives the last day of the month of its argument.
LastDomIsMonthEnd ==
    DateDone("last_dom") =>
        date_out = Return([date_call.dt EXCEPT
                             !.d = DaysIn(date_call.dt.y, date_call.dt.m)])

\* C18: for freq='M' and every date dt, calc_data_date_with_freq(dt, 'M')
\* returns dt itself when dt is the last day of its month and otherwise
\* the last day of the preceding month; the result is always a month-end
\* date and applying the function to the result returns it unchanged.
C18_MonthlyDataDate ==
    (DateDone("calc_data_date_with_freq") /\ date_call.freq = "M") =>
        /\ date_out.tag = "return"
        /\ IsMonthEnd(date_call.dt) => date_out.val = date_call.dt
        /\ ~IsMonthEnd(date_call.dt) =>
              SameDay(date_out.val, PrecedingMonthEnd(date_call.dt))
        /\ IsMonthEnd(date_out.val)
        /\ calc_data_date_with_freq(date_out.val, "M") = date_out

\* C19: for every datetime dt (any month, day and time of day),
\* last_doq(dt) returns, without raising, midnight of the last day of the
\* calendar quarter that contains dt.
C19_QuarterEnd ==
    DateDone("last_doq") => date_out = Return(QuarterEnd(date_call.dt))

\* The same for the datetimes at midnight alone.
QuarterEndAtMidnight ==
    (DateDone("last_doq") /\ date_call.dt.h = 0) =>
        date_out = Return(QuarterEnd(date_call.dt))

\* ------------------------------------------------------ writer_changelog
MaxLines == 4

\* The lines of a changelog: the heading of the unreleased section, two
\* version headings and two other lines.
LatestHeading == "## Latest Changes"
VersionHeadings == {"## 1.0.0", "## 0.9.0.post1"}
OtherLines == {"- fix", "# Changelogs"}
Lines == {LatestHeading} \cup VersionHeadings \cup OtherLines

\* line.startswith("## Latest Changes")
startswith_latest(line) == line = LatestHeading
\* re.match(rf"## {BUMP_REGEX}", line)
match_version(line) == line \in VersionHeadings

\* The section written from the commit logs: its heading, then the
\* entries when there are logs of a known type.
latest_section(has_logs) ==
    IF has_logs THEN <<LatestHeading, "", "### Features", "", "- log", "">>
    ELSE <<LatestHeading>>

LoopState(skip, wr, out) == [skip_line |-> skip, written |-> wr, writer |-> out]

\* One pass of the loop body over a line.
loop_body(line, st, has_logs) ==
    LET skip1 == IF startswith_latest(line) THEN FALSE ELSE st.skip_line
        isver == match_version(line)
        out2 == IF isver /\ ~st.written
                THEN st.writer \o <<LatestHeading, "">>
                ELSE st.writer
        wr2 == IF isver THEN TRUE ELSE st.written
        skip2 == IF isver THEN TRUE ELSE skip1
    IN  IF skip2 THEN LoopState(skip2, wr2, Append(out2, line))
        ELSE IF wr2 THEN LoopState(skip2, wr2, out2)
        ELSE LoopState(skip2, TRUE, out2 \o latest_section(has_logs))

InitLog ==
    /\ content = <<>>
    /\ pc = "idle"
    /\ DotIdle /\ RecIdle /\ MatchIdle /\ MergeIdle /\ DateIdle /\ LogIdle

\* The file is read and reopened for writing.
OpenChangelog ==
    /\ pc = "idle"
    /\ changes' \in SeqsUpTo(Lines, MaxLines)
    /\ line_no' = 1
    /\ skip_line' = TRUE
    /\ written' = FALSE
    /\ writer' = <<>>
    /\ pc' = "loop"
    /\ UNCHANGED <<dotVars, matchVars, recVars, mergeVars, dateVars>>

\* for line in changes: ...
LoopLine ==
    /\ pc = "loop"
    /\ line_no <= Len(changes)
    /\ \E has_logs \in BOOLEAN :
        LET st == loop_body(changes[line_no],
                            LoopState(skip_line, written, writer), has_logs)
        IN  /\ skip_line' = st.skip_line
            /\ written' = st.written
            /\ writer' = st.writer
    /\ line_no' = line_no + 1
    /\ UNCHANGED <<pc, changes, dotVars, matchVars, recVars, mergeVars, dateVars>>

\* writer.close()
CloseWriter ==
    /\ pc = "loop"
    /\ line_no > Len(changes)
    /\ pc' = "done"
    /\ UNCHANGED <<logVars, dotVars, matchVars, recVars, mergeVars, dateVars>>

FinishLog ==
    /\ pc = "done"
    /\ pc' = "idle"
    /\ changes' = <<>>
    /\ line_no' = 0
    /\ skip_line' = TRUE
    /\ written' = FALSE
    /\ writer' = <<>>
    /\ UNCHANGED <<dotVars, matchVars, recVars, mergeVars, dateVars>>

NextLog == OpenChangelog \/ LoopLine \/ CloseWriter \/ FinishLog

SpecLog == InitLog /\ [][NextLog]_vars

HasVersion == \E i \in 1..Len(changes) : match_version(changes[i])
FirstVersion ==
    CHOOSE i \in 1..Len(changes) :
        /\ match_version(changes[i])
        /\ \A j \in 1..(i - 1) : ~match_version(changes[j])
\* The input from its first version heading to its end.
History == SubSeq(changes, FirstVersion, Len(changes))
\* The output ends with the history, line for line.
HistoryWritten ==
    /\ Len(writer) >= Len(History)
    /\ SubSeq(writer, Len(writer) - Len(History) + 1, Len(writer)) = History

\* C20: writer_changelog never loses released history: every line from
\* the first version heading to the end of the file is written to the
\* output unchanged and in the same order, whatever sequence of
\* '## Latest Changes' and version headings the input contains.
C20_HistoryKept == (pc = "done" /\ HasVersion) => HistoryWritten

\* The same for the changelogs with no '## Latest Changes' line after
\* their first version heading.
HistoryKeptLatestFirst ==
    (/\ pc = "done" /\ HasVersion
     /\ \A i \in FirstVersion..Len(changes) : ~startswith_latest(changes[i]))
        => HistoryWritten

====
